---- MODULE Spec2Model ----
(***************************************************************************)
(* A model of the Rubik's cube engine (python/src/cube.py) and of the two  *)
(* search solvers built on it (python/src/solvers/bfs_solver.py and        *)
(* astar_solver.py).                                                       *)
(*                                                                         *)
(* Python lists are TLA+ sequences (1-based); numpy arrays and the tuples  *)
(* of a state key are functions over 0..n-1, so that the indices of the    *)
(* source can be read off directly.  A string is a sequence of one-        *)
(* character strings.                                                      *)
(***************************************************************************)
EXTENDS Integers, Sequences, FiniteSets, TLC

\* ------------------------------------------------------------------ bounds
\* Total number of move tokens handed to the cube in one behaviour.
MaxMoves == 2
\* Longest algorithm (number of tokens) handed to apply_algorithm.
MaxAlgLen == 2
\* Largest max_depth a solver is constructed with.
MaxDepth == 2
\* Number of times one algorithm is applied in a row.
MaxRepeats == 6

\* --------------------------------------------------------------- cube.py
Faces == 0..5
Idx == 0..2
Colors == 0..5

\* RubiksCube.__init__: face i uniformly coloured i.
SolvedFaces == [i \in Faces |-> [r \in Idx |-> [c \in Idx |-> i]]]

\* is_solved comparing every sticker with the colour face i starts with.
is_solved_canonical(f) ==
    \A i \in Faces : \A r \in Idx : \A c \in Idx : f[i][r][c] = i

\* is_solved comparing only the first row of each face with face[0, 0].
is_solved_first_row(f) ==
    \A i \in Faces : \A c \in Idx : f[i][0][c] = f[i][0][0]

\* np.all(face == face[0, 0]) for every face.
is_solved(f) ==
    \A i \in Faces : \A r \in Idx : \A c \in Idx : f[i][r][c] = f[i][0][0]

\* np.rot90(m, k=1): one quarter turn, result[i][j] = m[j][n-1-i].
rot90_once(m) == [i \in Idx |-> [j \in Idx |-> m[j][2 - i]]]

RECURSIVE np_rot90(_, _)
np_rot90(m, k) == IF k = 0 THEN m ELSE np_rot90(rot90_once(m), k - 1)

\* _rotate_face turning the same way whatever the direction asked for.
_rotate_face_one_way(f, face_idx, clockwise) ==
    [f EXCEPT ![face_idx] = np_rot90(f[face_idx], 1)]

\* The rotated view is assigned back to the face it was taken from; numpy
\* copies overlapping operands, so the assignment is the plain rotation.
_rotate_face(f, face_idx, clockwise) ==
    LET k == IF clockwise THEN 1 ELSE 3
    IN  [f EXCEPT ![face_idx] = np_rot90(f[face_idx], k)]

\* The 1-D array returned for edge_idx 0..3 (top, right, bottom reversed,
\* left reversed).
_get_face_edge(f, face_idx, edge_idx) ==
    LET face == f[face_idx]
    IN  CASE edge_idx = 0 -> [k \in Idx |-> face[0][k]]
          [] edge_idx = 1 -> [k \in Idx |-> face[k][2]]
          [] edge_idx = 2 -> [k \in Idx |-> face[2][2 - k]]
          [] edge_idx = 3 -> [k \in Idx |-> face[2 - k][0]]

\* _set_face_edge writing column 1 for the right edge, [:, 1] for [:, -1].
_set_face_edge_middle_column(f, face_idx, edge_idx, new_edge) ==
    LET face == f[face_idx]
        new_face ==
            CASE edge_idx = 0 ->
                   [r \in Idx |-> [c \in Idx |->
                       IF r = 0 THEN new_edge[c] ELSE face[r][c]]]
              [] edge_idx = 1 ->
                   [r \in Idx |-> [c \in Idx |->
                       IF c = 1 THEN new_edge[r] ELSE face[r][c]]]
              [] edge_idx = 2 ->
                   [r \in Idx |-> [c \in Idx |->
                       IF r = 2 THEN new_edge[2 - c] ELSE face[r][c]]]
              [] edge_idx = 3 ->
                   [r \in Idx |-> [c \in Idx |->
                       IF c = 0 THEN new_edge[2 - r] ELSE face[r][c]]]
    IN  [f EXCEPT ![face_idx] = new_face]

\* _set_face_edge writing the bottom edge without the [::-1] reversal.
_set_face_edge_unreversed(f, face_idx, edge_idx, new_edge) ==
    LET face == f[face_idx]
        new_face ==
            CASE edge_idx = 0 ->
                   [r \in Idx |-> [c \in Idx |->
                       IF r = 0 THEN new_edge[c] ELSE face[r][c]]]
              [] edge_idx = 1 ->
                   [r \in Idx |-> [c \in Idx |->
                       IF c = 2 THEN new_edge[r] ELSE face[r][c]]]
              [] edge_idx = 2 ->
                   [r \in Idx |-> [c \in Idx |->
                       IF r = 2 THEN new_edge[c] ELSE face[r][c]]]
              [] edge_idx = 3 ->
                   [r \in Idx |-> [c \in Idx |->
                       IF c = 0 THEN new_edge[2 - r] ELSE face[r][c]]]
    IN  [f EXCEPT ![face_idx] = new_face]

_set_face_edge(f, face_idx, edge_idx, new_edge) ==
    LET face == f[face_idx]
        new_face ==
            CASE edge_idx = 0 ->
                   [r \in Idx |-> [c \in Idx |->
                       IF r = 0 THEN new_edge[c] ELSE face[r][c]]]
              [] edge_idx = 1 ->
                   [r \in Idx |-> [c \in Idx |->
                       IF c = 2 THEN new_edge[r] ELSE face[r][c]]]
              [] edge_idx = 2 ->
                   [r \in Idx |-> [c \in Idx |->
                       IF r = 2 THEN new_edge[2 - c] ELSE face[r][c]]]
              [] edge_idx = 3 ->
                   [r \in Idx |-> [c \in Idx |->
                       IF c = 0 THEN new_edge[2 - r] ELSE face[r][c]]]
    IN  [f EXCEPT ![face_idx] = new_face]

\* Python's l[shift:] + l[:shift], negative indices counted from the end.
py_rotate(l, shift) ==
    LET n == Len(l)
        raw == IF shift < 0 THEN n + shift ELSE shift
        cut == IF raw < 0 THEN 0 ELSE IF raw > n THEN n ELSE raw
    IN  SubSeq(l, cut + 1, n) \o SubSeq(l, 1, cut)

\* The body shared by the six move_X methods once the face is rotated:
\* read the four strips, rotate the list, write the strips back in order.
RECURSIVE write_edges(_, _, _, _)
write_edges(f, edges, values, i) ==
    IF i > Len(edges) THEN f
    ELSE write_edges(_set_face_edge(f, edges[i][1], edges[i][2], values[i]),
                     edges, values, i + 1)

\* shift_edges with _get_face_edge returning views instead of copies: each
\* strip written is read from the cube as the earlier writes left it.
RECURSIVE write_edges_aliased(_, _, _, _)
write_edges_aliased(f, edges, from, i) ==
    IF i > Len(edges) THEN f
    ELSE write_edges_aliased(
           _set_face_edge(f, edges[i][1], edges[i][2],
                          _get_face_edge(f, edges[from[i]][1], edges[from[i]][2])),
           edges, from, i + 1)

shift_edges_aliased(f, edges, shift) ==
    write_edges_aliased(f, edges,
                        py_rotate([i \in 1..Len(edges) |-> i], shift), 1)

shift_edges(f, edges, shift) ==
    LET edge_values ==
            [i \in 1..Len(edges) |-> _get_face_edge(f, edges[i][1], edges[i][2])]
    IN  write_edges(f, edges, py_rotate(edge_values, shift), 1)

move_F(f, prime) ==
    shift_edges(_rotate_face(f, 0, ~prime),
                <<<<2, 2>>, <<5, 3>>, <<3, 0>>, <<4, 1>>>>,
                IF prime THEN 1 ELSE -1)

move_B(f, prime) ==
    shift_edges(_rotate_face(f, 1, ~prime),
                <<<<2, 0>>, <<4, 3>>, <<3, 2>>, <<5, 1>>>>,
                IF prime THEN -1 ELSE 1)

\* move_U with the Down face (3) in the place of the Back face (1).
move_U_strip_on_down(f, prime) ==
    shift_edges(_rotate_face(f, 2, ~prime),
                <<<<0, 0>>, <<5, 0>>, <<3, 0>>, <<4, 0>>>>,
                IF prime THEN 1 ELSE -1)

move_U(f, prime) ==
    shift_edges(_rotate_face(f, 2, ~prime),
                <<<<0, 0>>, <<5, 0>>, <<1, 0>>, <<4, 0>>>>,
                IF prime THEN 1 ELSE -1)

move_D(f, prime) ==
    shift_edges(_rotate_face(f, 3, ~prime),
                <<<<0, 2>>, <<4, 2>>, <<1, 2>>, <<5, 2>>>>,
                IF prime THEN 1 ELSE -1)

move_L(f, prime) ==
    shift_edges(_rotate_face(f, 4, ~prime),
                <<<<0, 3>>, <<2, 3>>, <<1, 1>>, <<3, 3>>>>,
                IF prime THEN 1 ELSE -1)

\* move_R taking the Back face's right edge for its left edge.
move_R_wrong_back_edge(f, prime) ==
    shift_edges(_rotate_face(f, 5, ~prime),
                <<<<0, 1>>, <<3, 1>>, <<1, 1>>, <<2, 1>>>>,
                IF prime THEN 1 ELSE -1)

move_R(f, prime) ==
    shift_edges(_rotate_face(f, 5, ~prime),
                <<<<0, 1>>, <<3, 1>>, <<1, 3>>, <<2, 1>>>>,
                IF prime THEN 1 ELSE -1)

\* str.strip() and str.split() on a sequence of characters.
Whitespace == {" ", "\t", "\n"}

RECURSIVE lstrip(_)
lstrip(s) ==
    IF s # <<>> /\ Head(s) \in Whitespace THEN lstrip(Tail(s)) ELSE s

RECURSIVE rstrip(_)
rstrip(s) ==
    IF s # <<>> /\ s[Len(s)] \in Whitespace
    THEN rstrip(SubSeq(s, 1, Len(s) - 1)) ELSE s

strip(s) == rstrip(lstrip(s))

RECURSIVE split_acc(_, _, _, _)
split_acc(s, i, cur, out) ==
    IF i > Len(s) THEN (IF cur = <<>> THEN out ELSE Append(out, cur))
    ELSE IF s[i] \in Whitespace
         THEN split_acc(s, i + 1, <<>>,
                        IF cur = <<>> THEN out ELSE Append(out, cur))
         ELSE split_acc(s, i + 1, Append(cur, s[i]), out)

\* algorithm.split(' '): cut at every single blank, empty pieces kept.
RECURSIVE split_blank_acc(_, _, _, _)
split_blank_acc(s, i, cur, out) ==
    IF i > Len(s) THEN Append(out, cur)
    ELSE IF s[i] = " "
         THEN split_blank_acc(s, i + 1, <<>>, Append(out, cur))
         ELSE split_blank_acc(s, i + 1, Append(cur, s[i]), out)

split_single_blank(s) == split_blank_acc(s, 1, <<>>, <<>>)

split(s) == split_acc(s, 1, <<>>, <<>>)

\* apply_move: the cube after the call and whether ValueError was raised.
apply_move(f, move) ==
    LET stripped == strip(move)
        prime == Len(stripped) > 1 /\ stripped[2] = "'"
        letter == IF prime THEN <<stripped[1]>> ELSE stripped
    IN  CASE letter = <<"F">> -> [faces |-> move_F(f, prime), err |-> FALSE]
          [] letter = <<"B">> -> [faces |-> move_B(f, prime), err |-> FALSE]
          [] letter = <<"U">> -> [faces |-> move_U(f, prime), err |-> FALSE]
          [] letter = <<"D">> -> [faces |-> move_D(f, prime), err |-> FALSE]
          [] letter = <<"L">> -> [faces |-> move_L(f, prime), err |-> FALSE]
          [] letter = <<"R">> -> [faces |-> move_R(f, prime), err |-> FALSE]
          [] OTHER -> [faces |-> f, err |-> TRUE]

\* The token loop going on after a token that apply_move rejected.
RECURSIVE apply_tokens_skip_invalid(_, _, _)
apply_tokens_skip_invalid(f, tokens, i) ==
    IF i > Len(tokens) THEN [faces |-> f, err |-> FALSE]
    ELSE LET r == apply_move(f, tokens[i])
             rest == apply_tokens_skip_invalid(r.faces, tokens, i + 1)
         IN  [faces |-> rest.faces, err |-> r.err \/ rest.err]

\* The token loop stopping one token early.
RECURSIVE apply_tokens_skip_last(_, _, _)
apply_tokens_skip_last(f, tokens, i) ==
    IF i >= Len(tokens) THEN [faces |-> f, err |-> FALSE]
    ELSE LET r == apply_move(f, tokens[i])
         IN  IF r.err THEN r ELSE apply_tokens_skip_last(r.faces, tokens, i + 1)

\* apply_algorithm: the loop over algorithm.split(); the first ValueError
\* propagates and leaves the cube as the earlier tokens made it.
RECURSIVE apply_tokens(_, _, _)
apply_tokens(f, tokens, i) ==
    IF i > Len(tokens) THEN [faces |-> f, err |-> FALSE]
    ELSE LET r == apply_move(f, tokens[i])
         IN  IF r.err THEN r ELSE apply_tokens(r.faces, tokens, i + 1)

apply_algorithm(f, algorithm) == apply_tokens(f, split(algorithm), 1)

\* reset with range(5): the Right face keeps its stickers.
reset_five_faces(f) ==
    [i \in Faces |-> [r \in Idx |-> [c \in Idx |-> IF i < 5 THEN i ELSE f[i][r][c]]]]

reset(f) == [i \in Faces |-> [r \in Idx |-> [c \in Idx |-> i]]]

\* ------------------------------------------------------ solver constants
\* self.basic_moves of both solvers.
basic_moves ==
    << <<"F">>, <<"F", "'">>, <<"B">>, <<"B", "'">>, <<"U">>, <<"U", "'">>,
       <<"D">>, <<"D", "'">>, <<"L">>, <<"L", "'">>, <<"R">>, <<"R", "'">> >>


\* ------------------------------------------- state keys (both solvers)
\* A 1-D numpy array, as opposed to a tuple: numpy arrays have no __hash__.
ndarray(v) == [type |-> "ndarray", v |-> v]

\* tuple(tuple(tuple(face) for face in cube.faces)): the generator yields,
\* for each 3x3 face, tuple(face), whose elements are the three rows of the
\* face as 1-D arrays; the outer tuple(...) calls leave that unchanged.  The
\* same method is repeated verbatim in astar_solver.py (lines 30-40).
_cube_state_to_hashable(f) ==
    [i \in Faces |-> [r \in Idx |-> ndarray(f[i][r])]]

\* hash(key): a tuple hashes each of its elements; hashing a numpy array
\* raises TypeError (unhashable type: 'numpy.ndarray').
py_hashable(key) ==
    \A i \in DOMAIN key : \A r \in DOMAIN key[i] : key[i][r].type # "ndarray"

\* np.array(current_state).reshape((6, 3, 3))
np_array_reshape(key) ==
    [i \in Faces |-> [r \in Idx |-> [c \in Idx |-> key[i][r].v[c]]]]

\* What a call of solve() ends in.
Return(found, moves, nodes) ==
    [kind |-> "return", found |-> found, moves |-> moves, nodes |-> nodes,
     exc |-> "none"]

Raise(exc) ==
    [kind |-> "raise", found |-> FALSE, moves |-> <<>>, nodes |-> 0,
     exc |-> exc]

NoResult ==
    [kind |-> "none", found |-> FALSE, moves |-> <<>>, nodes |-> 0,
     exc |-> "none"]

RECURSIVE reverse(_)
reverse(l) == IF l = <<>> THEN <<>> ELSE Append(reverse(Tail(l)), Head(l))

\* _reconstruct_path (identical in both solvers): follow came_from from
\* current while it has an entry, collecting the moves, then reverse.
RECURSIVE walk_came_from(_, _, _)
walk_came_from(current, came_from, path) ==
    IF current \in DOMAIN came_from
    THEN walk_came_from(came_from[current][1], came_from,
                        Append(path, came_from[current][2]))
    ELSE path

_reconstruct_path(current, came_from) ==
    reverse(walk_came_from(current, came_from, <<>>))

\* ------------------------------------------------------- bfs_solver.py
\* The for-loop over basic_moves for one dequeued node, from move i on.
RECURSIVE BFS_expand(_, _, _, _)
BFS_expand(s, current_state, depth, i) ==
    IF i > Len(basic_moves) THEN [done |-> FALSE, s |-> s, result |-> NoResult]
    ELSE
      LET move == basic_moves[i]
          new_cube == apply_move(np_array_reshape(current_state), move).faces
          new_state == _cube_state_to_hashable(new_cube)
      IN  IF is_solved(new_cube)
          THEN LET came_from ==
                       (new_state :> <<current_state, move>>) @@ s.came_from
               IN  [done |-> TRUE, s |-> s,
                    result |-> Return(TRUE,
                                      _reconstruct_path(new_state, came_from),
                                      s.nodes)]
          ELSE IF new_state \notin s.visited
          THEN BFS_expand(
                 [s EXCEPT !.visited = @ \cup {new_state},
                           !.queue = Append(@, <<new_state, depth + 1>>),
                           !.came_from =
                               (new_state :> <<current_state, move>>) @@ @],
                 current_state, depth, i + 1)
          ELSE BFS_expand(s, current_state, depth, i + 1)

\* The while-loop over the queue.
RECURSIVE BFS_loop(_, _)
BFS_loop(s, max_depth) ==
    IF s.queue = <<>> THEN Return(FALSE, <<>>, s.nodes)
    ELSE
      LET current_state == Head(s.queue)[1]
          depth == Head(s.queue)[2]
          s1 == [s EXCEPT !.queue = Tail(@), !.nodes = @ + 1]
      IN  IF depth >= max_depth THEN BFS_loop(s1, max_depth)
          ELSE LET r == BFS_expand(s1, current_state, depth, 1)
               IN  IF r.done THEN r.result ELSE BFS_loop(r.s, max_depth)

\* The copy written the wrong way round: cube.faces = np.copy(cube_copy.faces)
\* with cube_copy fresh from RubiksCube().
copy_cube_reversed(cube) == [cube |-> SolvedFaces, cube_copy |-> SolvedFaces]

\* cube_copy = RubiksCube(); cube_copy.faces = np.copy(cube.faces): the
\* caller's cube and the solver's copy after the two statements.
copy_cube(cube) == [cube |-> cube, cube_copy |-> cube]

\* The caller's cube when solve() ends: untouched by the entry check, and
\* from then on solve() works on cube_copy and on cubes rebuilt from keys.
cube_after_solve(cube) ==
    IF is_solved(cube) THEN cube ELSE copy_cube(cube).cube

\* solve() below the already-solved check: copy the cube, build the queue,
\* the parent table and the visited set, then search.  The set literal of
\* line 84 hashes the start key; every later use of a key (visited,
\* came_from) hashes a key of the same shape.
BFS_search(cube, max_depth) ==
    LET cube_copy == copy_cube(cube).cube_copy
        start == _cube_state_to_hashable(cube_copy)
    IN  IF ~py_hashable(start) THEN Raise("TypeError")
        ELSE BFS_loop([queue |-> << <<start, 0>> >>,
                       came_from |-> << >>,
                       visited |-> {start},
                       nodes |-> 0],
                      max_depth)

\* solve() without the already-solved check.
BFS_solve_no_entry_check(cube, max_depth) == BFS_search(cube, max_depth)

BFS_solve(cube, max_depth) ==
    IF is_solved(cube) THEN Return(TRUE, <<>>, 0)
    ELSE BFS_search(cube, max_depth)

\* ----------------------------------------------------- astar_solver.py
\* _heuristic with range(5): the Right face is not counted.
_heuristic_five_faces(f) ==
    LET Cells == (0..4) \X Idx \X Idx
        misplaced(p) == f[p[1]][p[2]][p[3]] # f[p[1]][1][1]
    IN  Cardinality({p \in Cells : misplaced(p)})

\* Sum over the faces of np.sum(face != face[1, 1]).
_heuristic(f) ==
    LET Cells == Faces \X Idx \X Idx
        misplaced(p) == f[p[1]][p[2]][p[3]] # f[p[1]][1][1]
    IN  Cardinality({p \in Cells : misplaced(p)})

\* heapq.heappop: the least entry in tuple order (f, count, state, depth);
\* count is different in every entry, so the order never reaches the state.
heap_min(open_set) ==
    CHOOSE e \in open_set :
        \A o \in open_set :
            \/ e.f < o.f
            \/ (e.f = o.f /\ e.count <= o.count)

\* The for-loop over basic_moves for one popped node, from move i on.
RECURSIVE AStar_expand(_, _, _, _, _)
AStar_expand(s, current_state, current_cube, depth, i) ==
    IF i > Len(basic_moves) THEN s
    ELSE
      LET move == basic_moves[i]
          new_cube == apply_move(current_cube, move).faces
          new_state == _cube_state_to_hashable(new_cube)
          tentative_g_score == s.g_score[current_state] + 1
      IN  IF \/ new_state \notin DOMAIN s.g_score
             \/ tentative_g_score < s.g_score[new_state]
          THEN
            LET new_h == _heuristic(new_cube)
                new_f == tentative_g_score + new_h
                s1 == [s EXCEPT
                         !.came_from =
                             (new_state :> <<current_state, move>>) @@ @,
                         !.g_score = (new_state :> tentative_g_score) @@ @,
                         !.f_score = (new_state :> new_f) @@ @]
                s2 == IF new_state \notin s1.visited
                      THEN [s1 EXCEPT
                              !.visited = @ \cup {new_state},
                              !.count = @ + 1,
                              !.open_set = @ \cup
                                  {[f |-> new_f, count |-> s1.count + 1,
                                    state |-> new_state,
                                    depth |-> depth + 1]}]
                      ELSE s1
            IN  AStar_expand(s2, current_state, current_cube, depth, i + 1)
          ELSE AStar_expand(s, current_state, current_cube, depth, i + 1)

\* The while-loop over the open set.
RECURSIVE AStar_loop(_, _)
AStar_loop(s, max_depth) ==
    IF s.open_set = {} THEN Return(FALSE, <<>>, s.nodes)
    ELSE
      LET e == heap_min(s.open_set)
          s1 == [s EXCEPT !.open_set = @ \ {e}, !.nodes = @ + 1]
          current_cube == np_array_reshape(e.state)
      IN  IF is_solved(current_cube)
          THEN Return(TRUE, _reconstruct_path(e.state, s1.came_from), s1.nodes)
          ELSE IF e.depth >= max_depth THEN AStar_loop(s1, max_depth)
          ELSE AStar_loop(
                 AStar_expand(s1, e.state, current_cube, e.depth, 1),
                 max_depth)

\* solve() below the already-solved check.  Building the open-set list does
\* not hash; the dict literal of line 114 is the first place that hashes the
\* start key.
AStar_search(cube, max_depth) ==
    LET cube_copy == copy_cube(cube).cube_copy
        start_state == _cube_state_to_hashable(cube_copy)
        start_h == _heuristic(cube_copy)
    IN  IF ~py_hashable(start_state) THEN Raise("TypeError")
        ELSE AStar_loop([open_set |-> {[f |-> start_h, count |-> 0,
                                        state |-> start_state, depth |-> 0]},
                         count |-> 0,
                         came_from |-> << >>,
                         g_score |-> (start_state :> 0),
                         f_score |-> (start_state :> start_h),
                         visited |-> {start_state},
                         nodes |-> 0],
                        max_depth)

AStar_solve(cube, max_depth) ==
    IF is_solved(cube) THEN Return(TRUE, <<>>, 0)
    ELSE AStar_search(cube, max_depth)

\* ------------------------------------------- the locals of solve(), in time
\* The locals of BFSSolver.solve() at the points of a search: after the
\* initialisation and after every iteration of the while-loop, up to the
\* point where solve() ends.  unassigned holds the names not bound yet.
RECURSIVE BFS_loop_points(_, _)
BFS_loop_points(s, max_depth) ==
    <<s>> \o
    (IF s.queue = <<>> THEN <<>>
     ELSE
       LET current_state == Head(s.queue)[1]
           depth == Head(s.queue)[2]
           s1 == [s EXCEPT !.queue = Tail(@), !.nodes = @ + 1]
       IN  IF depth >= max_depth THEN BFS_loop_points(s1, max_depth)
           ELSE LET r == BFS_expand(s1, current_state, depth, 1)
                IN  IF r.done THEN <<r.s>>
                    ELSE BFS_loop_points(r.s, max_depth))

\* Lines 82 and 83 bind queue and came_from; line 84 raises on a key that
\* does not hash, and visited and nodes_explored are never bound.
BFS_points(cube, max_depth) ==
    IF is_solved(cube) THEN <<>>
    ELSE
      LET cube_copy == copy_cube(cube).cube_copy
          start == _cube_state_to_hashable(cube_copy)
          s0 == [queue |-> << <<start, 0>> >>,
                 came_from |-> << >>,
                 visited |-> {start},
                 nodes |-> 0,
                 unassigned |-> {}]
      IN  IF ~py_hashable(start)
          THEN << [s0 EXCEPT !.visited = {},
                             !.unassigned = {"visited", "nodes_explored"}] >>
          ELSE BFS_loop_points(s0, max_depth)

\* The same for AStarSolver.solve().
RECURSIVE AStar_loop_points(_, _)
AStar_loop_points(s, max_depth) ==
    <<s>> \o
    (IF s.open_set = {} THEN <<>>
     ELSE
       LET e == heap_min(s.open_set)
           s1 == [s EXCEPT !.open_set = @ \ {e}, !.nodes = @ + 1]
           current_cube == np_array_reshape(e.state)
       IN  IF is_solved(current_cube) THEN <<s1>>
           ELSE IF e.depth >= max_depth THEN AStar_loop_points(s1, max_depth)
           ELSE AStar_loop_points(
                  AStar_expand(s1, e.state, current_cube, e.depth, 1),
                  max_depth))

\* Lines 107 to 111 bind count, open_set and came_from; line 114 raises on
\* a key that does not hash, and g_score, f_score, visited and
\* nodes_explored are never bound.
AStar_points(cube, max_depth) ==
    IF is_solved(cube) THEN <<>>
    ELSE
      LET cube_copy == copy_cube(cube).cube_copy
          start_state == _cube_state_to_hashable(cube_copy)
          start_h == _heuristic(cube_copy)
          s0 == [open_set |-> {[f |-> start_h, count |-> 0,
                                state |-> start_state, depth |-> 0]},
                 count |-> 0,
                 came_from |-> << >>,
                 g_score |-> (start_state :> 0),
                 f_score |-> (start_state :> start_h),
                 visited |-> {start_state},
                 nodes |-> 0,
                 unassigned |-> {}]
      IN  IF ~py_hashable(start_state)
          THEN << [s0 EXCEPT !.g_score = << >>, !.f_score = << >>,
                             !.visited = {},
                             !.unassigned = {"g_score", "f_score", "visited",
                                             "nodes_explored"}] >>
          ELSE AStar_loop_points(s0, max_depth)

\* _reconstruct_path as a call: the test 'current in came_from' hashes
\* current before it looks at the table, also when the table is empty.
_reconstruct_path_call(current, came_from) ==
    IF ~py_hashable(current) THEN Raise("TypeError")
    ELSE Return(TRUE, _reconstruct_path(current, came_from), 0)


\* ------------------------------------------------------------ the program
\* faces      the caller's cube (RubiksCube.faces)
\* op         the operation performed last
\* pre        the cube before that operation
\* algorithm  the string handed to apply_move / apply_algorithm
\* max_depth  the bound of the solver that ran last (0 when op is no solve)
\* result     how the operation ended
\* nmoves     number of face turns applied so far
VARIABLES faces, op, pre, algorithm, max_depth, result, nmoves

vars == <<faces, op, pre, algorithm, max_depth, result, nmoves>>

\* ' '.join(tokens)
RECURSIVE join(_)
join(tokens) ==
    IF tokens = <<>> THEN <<>>
    ELSE IF Len(tokens) = 1 THEN tokens[1]
    ELSE tokens[1] \o <<" ">> \o join(Tail(tokens))

\* The 12 tokens of standard notation.
BasicMoveSet == {basic_moves[m] : m \in 1..Len(basic_moves)}

\* Tokens that are none of the 12: an unknown face letter, a letter followed
\* by something other than an apostrophe, and characters after the
\* apostrophe.
MalformedTokens ==
    { <<"X">>, <<"F", "x">>, <<"F", "'", "'">>, <<"R", "'", "x">> }

\* The tokens a caller hands to apply_move.
MoveTokens == BasicMoveSet \cup MalformedTokens

\* The tokens a caller writes into an algorithm string.
AlgorithmTokens == BasicMoveSet \cup { <<"X">> }

\* The sequences of exactly n algorithm tokens.
RECURSIVE MoveSeqs(_)
MoveSeqs(n) ==
    IF n = 0 THEN {<<>>}
    ELSE {Append(t, tok) : t \in MoveSeqs(n - 1), tok \in AlgorithmTokens}

\* The whitespace between two tokens, and around the string.
Separators == { <<" ">>, <<" ", " ">> }
Pads == { <<>>, <<"\t">> }

\* The tokens written out with sep between them and pad at both ends.
RECURSIVE join_with(_, _)
join_with(tokens, sep) ==
    IF tokens = <<>> THEN <<>>
    ELSE IF Len(tokens) = 1 THEN tokens[1]
    ELSE tokens[1] \o sep \o join_with(Tail(tokens), sep)

layout(tokens, sep, pad) == pad \o join_with(tokens, sep) \o pad

Init ==
    /\ faces = SolvedFaces
    /\ op = "init"
    /\ pre = SolvedFaces
    /\ algorithm = <<>>
    /\ max_depth = 0
    /\ result = NoResult
    /\ nmoves = 0

Outcome(r) == IF r.err THEN Raise("ValueError") ELSE Return(FALSE, <<>>, 0)

\* cube.apply_move(tok)
ApplyMove ==
    \E tok \in MoveTokens :
        LET r == apply_move(faces, tok)
        IN  /\ nmoves < MaxMoves
            /\ faces' = r.faces
            /\ op' = "apply_move"
            /\ pre' = faces
            /\ algorithm' = tok
            /\ result' = Outcome(r)
            /\ nmoves' = nmoves + 1
            /\ max_depth' = 0

\* cube.apply_algorithm(a) for a string a of n tokens.
ApplyAlgorithm ==
    \E n \in 0..MaxAlgLen :
        /\ nmoves + n <= MaxMoves
        /\ \E t \in MoveSeqs(n), sep \in Separators, pad \in Pads :
               LET a == layout(t, sep, pad)
                   r == apply_algorithm(faces, a)
               IN  /\ faces' = r.faces
                   /\ op' = "apply_algorithm"
                   /\ pre' = faces
                   /\ algorithm' = a
                   /\ result' = Outcome(r)
                   /\ nmoves' = nmoves + n
                   /\ max_depth' = 0

Reset ==
    /\ faces' = reset(faces)
    /\ op' = "reset"
    /\ pre' = faces
    /\ algorithm' = <<>>
    /\ result' = Return(FALSE, <<>>, 0)
    /\ max_depth' = 0
    /\ UNCHANGED nmoves

\* BFSSolver(max_depth=d).solve(cube): the solver works on a copy of the
\* cube; the caller's cube is only read.
BFSSolve ==
    \E d \in 0..MaxDepth :
        /\ op' = "bfs_solve"
        /\ pre' = faces
        /\ algorithm' = <<>>
        /\ max_depth' = d
        /\ result' = BFS_solve(faces, d)
        /\ faces' = cube_after_solve(faces)
        /\ UNCHANGED nmoves

AStarSolve ==
    \E d \in 0..MaxDepth :
        /\ op' = "astar_solve"
        /\ pre' = faces
        /\ algorithm' = <<>>
        /\ max_depth' = d
        /\ result' = AStar_solve(faces, d)
        /\ faces' = cube_after_solve(faces)
        /\ UNCHANGED nmoves

Next == ApplyMove \/ ApplyAlgorithm \/ Reset \/ BFSSolve \/ AStarSolve

Spec == Init /\ [][Next]_vars


\* ------------------------------------------------------------ properties
\* Every face shows a single colour.
UniformFaces(f) ==
    \A i \in Faces : Cardinality({f[i][r][c] : r \in Idx, c \in Idx}) = 1

\* X' for X and X for X'.
InverseMove(t) == IF Len(t) > 1 THEN <<t[1]>> ELSE t \o <<"'">>

\* Order reversed, each move replaced by its inverse.
ReverseInverse(tokens) ==
    [i \in 1..Len(tokens) |-> InverseMove(tokens[Len(tokens) + 1 - i])]

\* Some sequence of at most k basic moves takes f to a state is_solved
\* accepts.
RECURSIVE SolvableIn(_, _)
SolvableIn(f, k) ==
    \/ is_solved(f)
    \/ /\ k > 0
       /\ \E m \in 1..Len(basic_moves) :
              SolvableIn(apply_move(f, basic_moves[m]).faces, k - 1)

\* The least number of moves to a solved state, when it is at most bound.
MinDistance(f, bound) ==
    CHOOSE k \in 0..bound :
        SolvableIn(f, k) /\ \A j \in 0..(k - 1) : ~SolvableIn(f, j)

Solves == {"bfs_solve", "astar_solve"}

\* C1: whenever BFSSolver.solve returns found=true, the returned moves are
\* at most max_depth many and, applied in order to a copy of the start
\* state, give a cube whose six faces are each of one colour.
C1_BFSFoundIsSolution ==
    (op = "bfs_solve" /\ result.kind = "return" /\ result.found) =>
        /\ Len(result.moves) <= max_depth
        /\ LET r == apply_algorithm(pre, join(result.moves))
           IN  ~r.err /\ UniformFaces(r.faces)

\* BFS answered found=true for a cube that had been turned before.
C1_Witness ==
    /\ op = "bfs_solve"
    /\ result.kind = "return"
    /\ result.found
    /\ nmoves > 0

\* C2: for a start state exactly k <= max_depth moves from solved,
\* BFSSolver.solve returns found=true with a solution of exactly k moves.
C2_BFSShortest ==
    (op = "bfs_solve" /\ SolvableIn(pre, max_depth)) =>
        /\ result.kind = "return"
        /\ result.found
        /\ Len(result.moves) = MinDistance(pre, max_depth)

\* C3: whenever AStarSolver.solve returns found=true, the returned moves are
\* at most max_depth many and, applied in order to a copy of the start
\* state, give a cube whose six faces are each of one colour.
C3_AStarFoundIsSolution ==
    (op = "astar_solve" /\ result.kind = "return" /\ result.found) =>
        /\ Len(result.moves) <= max_depth
        /\ LET r == apply_algorithm(pre, join(result.moves))
           IN  ~r.err /\ UniformFaces(r.faces)

\* A* answered found=true for a cube that had been turned before.
C3_Witness ==
    /\ op = "astar_solve"
    /\ result.kind = "return"
    /\ result.found
    /\ nmoves > 0

\* C4: for a start state solvable in at most max_depth moves,
\* AStarSolver.solve returns found=true.
C4_AStarFinds ==
    (op = "astar_solve" /\ SolvableIn(pre, max_depth)) =>
        (result.kind = "return" /\ result.found)

\* C5: on a start state that is_solved accepts, both solvers return
\* found=true, no moves and nodes_explored = 0.
C5_AlreadySolved ==
    (op \in Solves /\ is_solved(pre)) => result = Return(TRUE, <<>>, 0)

\* Each solver was handed a solved cube, with a positive bound.
C5_Witness ==
    /\ op \in Solves
    /\ is_solved(pre)
    /\ max_depth > 0
    /\ result.nodes = 0

\* C6: for a start state that needs more than max_depth moves, both solvers
\* return found=false, no moves and a positive nodes_explored.
C6_BoundExhausted ==
    (op \in Solves /\ ~SolvableIn(pre, max_depth)) =>
        /\ result.kind = "return"
        /\ ~result.found
        /\ result.moves = <<>>
        /\ result.nodes > 0

\* C7: after apply_move has applied any of the 12 moves to a reachable
\* state, the inverse move brings back all 54 stickers.
C7_MoveThenInverse ==
    (op = "apply_move" /\ result.kind = "return") =>
        apply_move(faces, InverseMove(algorithm)).faces = pre

\* A move has changed an unsolved cube.
C7_Witness ==
    /\ op = "apply_move"
    /\ ~is_solved(pre)
    /\ faces # pre

\* C8: a move applied four times in a row to a reachable state gives back
\* the state it started from.
C8_FourTimes ==
    (op = "apply_move" /\ result.kind = "return") =>
        apply_algorithm(faces, join(<<algorithm, algorithm, algorithm>>)).faces
            = pre

\* A move has been applied to an unsolved cube whose turned layer was not
\* left as it was by fewer than four turns.
C8_Witness ==
    /\ op = "apply_move"
    /\ ~is_solved(pre)
    /\ apply_move(faces, algorithm).faces # pre
    /\ apply_algorithm(faces, join(<<algorithm, algorithm>>)).faces # pre

\* C9: in every reachable state every sticker is one of the six colours and
\* each colour is on exactly 9 of the 54 stickers.
C9_StickerConservation ==
    /\ \A i \in Faces : \A r \in Idx : \A c \in Idx : faces[i][r][c] \in Colors
    /\ \A col \in Colors :
           Cardinality({p \in Faces \X Idx \X Idx :
                           faces[p[1]][p[2]][p[3]] = col}) = 9

\* Two turns have mixed the colours on some face.
C9_Witness ==
    /\ nmoves = 2
    /\ ~UniformFaces(faces)
    /\ op \in {"apply_move", "apply_algorithm"}

\* C10: after apply_algorithm has applied a move sequence to a reachable
\* state, applying the reverse-inverse sequence restores the state; and
\* "R U R' U'" followed by "U R U' R'" from solved is solved.
C10_ReverseInverse ==
    /\ (op = "apply_algorithm" /\ result.kind = "return") =>
           apply_algorithm(faces, join(ReverseInverse(split(algorithm)))).faces
               = pre
    /\ op = "init" =>
           is_solved(
               apply_algorithm(
                   apply_algorithm(
                       faces,
                       <<"R", " ", "U", " ", "R", "'", " ", "U", "'">>).faces,
                   <<"U", " ", "R", " ", "U", "'", " ", "R", "'">>).faces)

\* apply_algorithm has applied two different moves.
C10_Witness ==
    /\ op = "apply_algorithm"
    /\ Len(split(algorithm)) = 2
    /\ split(algorithm)[1] # split(algorithm)[2]
    /\ faces # pre


\* ------------------------------------------- one algorithm, repeated
\* A caller applying the same four-move algorithm X Y X' Y' again and
\* again with apply_algorithm, starting from the solved cube.
Commutator(x, y) ==
    join(<<basic_moves[x], basic_moves[y],
           InverseMove(basic_moves[x]), InverseMove(basic_moves[y])>>)

RepeatAlgorithm ==
    \E x \in 1..Len(basic_moves), y \in 1..Len(basic_moves) :
        LET a == Commutator(x, y)
            r == apply_algorithm(faces, a)
        IN  /\ op = "init" \/ algorithm = a
            /\ nmoves + 4 <= 4 * MaxRepeats
            /\ faces' = r.faces
            /\ op' = "apply_algorithm"
            /\ pre' = faces
            /\ algorithm' = a
            /\ result' = Outcome(r)
            /\ nmoves' = nmoves + 4
            /\ max_depth' = 0

RepeatNext == RepeatAlgorithm

RepeatSpec == Init /\ [][RepeatNext]_vars

SexyMove == <<"R", " ", "U", " ", "R", "'", " ", "U", "'">>

\* C11: from solved, "R U R' U'" applied six times in a row ends in a state
\* is_solved accepts, and applied one to five times it does not.
C11_SexySixTimes ==
    (op = "apply_algorithm" /\ algorithm = SexyMove) =>
        /\ nmoves = 24 => is_solved(faces)
        /\ nmoves \in {4, 8, 12, 16, 20} => ~is_solved(faces)

\* The sixth application of "R U R' U'" has just ended, on a solved cube.
C11_Witness ==
    /\ op = "apply_algorithm"
    /\ algorithm = SexyMove
    /\ nmoves = 24
    /\ is_solved(faces)
    /\ ~is_solved(pre)


\* --------------------------------------------- queries on arbitrary cubes
\* Cubes a caller can build by assigning cube.faces (as the solvers and the
\* tests do): six uniform faces under several colourings, the same with one
\* sticker recoloured, and the solved cube after one basic move.
UniformCube(colouring) ==
    [i \in Faces |-> [r \in Idx |-> [c \in Idx |-> colouring[i]]]]

Colourings ==
    { [i \in Faces |-> i],
      [i \in Faces |-> IF i = 0 THEN 1 ELSE IF i = 1 THEN 0 ELSE i],
      [i \in Faces |-> (i + 1) % 6],
      [i \in Faces |-> 0] }

UniformCubes == {UniformCube(k) : k \in Colourings}

OneStickerOff ==
    {[b EXCEPT ![p[1]][p[2]][p[3]] = col] :
        b \in UniformCubes, p \in Faces \X Idx \X Idx, col \in Colors}

OneMoveCubes ==
    {apply_move(SolvedFaces, basic_moves[m]).faces : m \in 1..Len(basic_moves)}

QueryCubes == UniformCubes \cup OneStickerOff \cup OneMoveCubes

\* The answer of a query: a boolean in found, or an integer in nodes.
Answer(b, n) == Return(b, <<>>, n)

QueryInit ==
    /\ faces \in QueryCubes
    /\ op = "init"
    /\ pre = faces
    /\ algorithm = <<>>
    /\ max_depth = 0
    /\ result = NoResult
    /\ nmoves = 0

\* cube.is_solved()
IsSolved ==
    /\ op' = "is_solved"
    /\ pre' = faces
    /\ result' = Answer(is_solved(faces), 0)
    /\ algorithm' = <<>>
    /\ max_depth' = 0
    /\ UNCHANGED <<faces, nmoves>>

\* AStarSolver()._heuristic(cube)
Heuristic ==
    /\ op' = "_heuristic"
    /\ pre' = faces
    /\ result' = Answer(FALSE, _heuristic(faces))
    /\ algorithm' = <<>>
    /\ max_depth' = 0
    /\ UNCHANGED <<faces, nmoves>>

QueryNext == IsSolved \/ Heuristic

QuerySpec == QueryInit /\ [][QueryNext]_vars

\* C12: is_solved answers true exactly when each face shows a single colour,
\* whatever that colour is: a cube with six uniform faces that is not the
\* initial colouring is accepted too.
C12_IsSolvedUniform ==
    (op = "is_solved") => (result.found <=> UniformFaces(faces))

\* is_solved has accepted a cube that is not the initial colouring.
C12_Witness ==
    /\ op = "is_solved"
    /\ result.found
    /\ faces # SolvedFaces

\* C13: the heuristic is a non-negative integer that is 0 exactly on the
\* cubes is_solved accepts; it is 0 on the solved cube and positive after any
\* single move from solved.
C13_HeuristicZeroIffSolved ==
    (op = "_heuristic") =>
        /\ result.nodes \in Nat
        /\ result.nodes = 0 <=> is_solved(faces)
        /\ faces = SolvedFaces => result.nodes = 0
        /\ faces \in OneMoveCubes => result.nodes > 0

\* The heuristic has been taken of the solved cube after one move.
C13_Witness ==
    /\ op = "_heuristic"
    /\ faces \in OneMoveCubes
    /\ result.nodes > 0


\* ------------------------------------------------------ tokens and strings
\* The moves of tokens applied one after the other, all taken to be valid.
RECURSIVE ApplyValid(_, _)
ApplyValid(f, tokens) ==
    IF tokens = <<>> THEN f
    ELSE ApplyValid(apply_move(f, Head(tokens)).faces, Tail(tokens))

\* The tokens before the first one that apply_move rejects.
RECURSIVE ValidPrefix(_)
ValidPrefix(tokens) ==
    IF tokens = <<>> \/ apply_move(SolvedFaces, Head(tokens)).err THEN <<>>
    ELSE <<Head(tokens)>> \o ValidPrefix(Tail(tokens))

\* The characters of a string that are not whitespace.
NonBlank(a) == SelectSeq(a, LAMBDA ch : ch \notin Whitespace)

\* A string with leading and trailing whitespace dropped and every other run
\* of whitespace replaced by one blank.
RECURSIVE squeeze_from(_, _, _)
squeeze_from(a, i, out) ==
    IF i > Len(a) THEN out
    ELSE IF a[i] \notin Whitespace THEN squeeze_from(a, i + 1, Append(out, a[i]))
    ELSE IF /\ out # <<>>
            /\ out[Len(out)] # " "
            /\ \E j \in i..Len(a) : a[j] \notin Whitespace
         THEN squeeze_from(a, i + 1, Append(out, " "))
         ELSE squeeze_from(a, i + 1, out)

Squeeze(a) == squeeze_from(a, 1, <<>>)

\* C14: apply_move raises the invalid-move error, and applies no move, for
\* every token that is not exactly one of the 12 tokens of standard notation.
C14_MalformedRejected ==
    (op = "apply_move" /\ algorithm \notin BasicMoveSet) =>
        /\ result.kind = "raise"
        /\ result.exc = "ValueError"
        /\ faces = pre

\* C15: when an algorithm holds an invalid token, apply_algorithm ends with
\* the error and the cube is the one obtained by applying exactly the valid
\* tokens before the first invalid one.
C15_FailFastKeepsPrefix ==
    (op = "apply_algorithm"
       /\ ValidPrefix(split(algorithm)) # split(algorithm)) =>
        /\ result.kind = "raise"
        /\ result.exc = "ValueError"
        /\ faces = ApplyValid(pre, ValidPrefix(split(algorithm)))

\* apply_algorithm has failed after a valid move changed the cube.
C15_Witness ==
    /\ op = "apply_algorithm"
    /\ result.kind = "raise"
    /\ ValidPrefix(split(algorithm)) # <<>>
    /\ faces # pre

\* C16: reset, after any sequence of moves, leaves face i uniformly coloured
\* i, a state is_solved accepts.
C16_ResetSolves ==
    (op = "reset") =>
        /\ \A i \in Faces : \A r \in Idx : \A c \in Idx : faces[i][r][c] = i
        /\ is_solved(faces)

\* reset has been called on an unsolved cube.
C16_Witness ==
    /\ op = "reset"
    /\ ~is_solved(pre)
    /\ nmoves > 0

\* C19: apply_algorithm on an empty or all-whitespace string returns with the
\* cube unchanged, and a string gives the same cube and the same outcome as
\* the string with every run of whitespace between tokens cut down to one
\* blank.
C19_WhitespaceInsensitive ==
    (op = "apply_algorithm") =>
        /\ NonBlank(algorithm) = <<>> =>
               (faces = pre /\ result.kind = "return")
        /\ LET r == apply_algorithm(pre, Squeeze(algorithm))
           IN  faces = r.faces /\ (result.kind = "raise" <=> r.err)

\* Two tokens with nothing but several whitespace characters between them
\* have been applied.
C19_Witness ==
    /\ op = "apply_algorithm"
    /\ result.kind = "return"
    /\ Len(split(algorithm)) = 2
    /\ algorithm[1] \notin Whitespace
    /\ algorithm[Len(algorithm)] \notin Whitespace
    /\ Len(algorithm) > Len(Squeeze(algorithm))
    /\ faces # pre

\* --------------------------------------------------------- the state key
\* C17: the key solve computes for the caller's cube can be put in the visited
\* set, rebuilding a cube from it gives back the cube it was computed from,
\* and it equals the key of another cube exactly when the two cubes agree on
\* every sticker.
C17_KeyUsable ==
    (op \in Solves /\ ~is_solved(pre)) =>
        LET key == _cube_state_to_hashable(pre)
        IN  /\ py_hashable(key)
            /\ result.kind = "return"
            /\ np_array_reshape(key) = pre
            /\ \A g \in {SolvedFaces, reset(pre), pre} :
                   (_cube_state_to_hashable(g) = key) <=> (g = pre)

\* ------------------------------------------------------ the caller's cube
\* C18: when solve (BFS or A*) ends, whatever its outcome, all 54 stickers of
\* the cube the caller passed in are as they were before the call.
C18_SolveLeavesCube ==
    (op \in Solves) =>
        \A i \in Faces : \A r \in Idx : \A c \in Idx :
            faces[i][r][c] = pre[i][r][c]

\* solve has run on a scrambled cube, so it went past the entry check and
\* made its copy.
C18_Witness ==
    /\ op \in Solves
    /\ ~is_solved(pre)
    /\ result.kind # "none"

\* ------------------------------------------------------------- the pieces
\* The letter of each face, by face index.
FaceLetter == <<"F", "B", "U", "D", "L", "R">>

\* The 54 sticker positions, face by face and row by row.
Positions == 0..53

\* The sticker of cube f at position p.
At(f, p) == f[p \div 9][(p % 9) \div 3][p % 3]

\* A cube on which every sticker is its own position.
LabelledFaces == [i \in Faces |-> [r \in Idx |-> [c \in Idx |-> 9 * i + 3 * r + c]]]

\* The faces whose turn moves the sticker at position p: the layers the
\* piece carrying that sticker lies in.  A corner sticker lies in three
\* layers, an edge sticker in two, a centre in none.
LayersOf ==
    [p \in Positions |->
        {X \in Faces :
            At(apply_move(LabelledFaces, <<FaceLetter[X + 1]>>).faces, p) # p}]

\* The places of the corner and edge pieces: the positions lying in the same
\* layers are the stickers of one piece.
PiecePlaces ==
    {{q \in Positions : LayersOf[q] = LayersOf[p]} :
        p \in {q \in Positions : LayersOf[q] # {}}}

\* The face turned by a move token.
TurnedFace(tok) == CHOOSE X \in Faces : FaceLetter[X + 1] = tok[1]

\* The position where the sticker that was at p before the move is now.
Dest(p) == CHOOSE q \in Positions : At(faces, q) = At(pre, p)

\* A cube with 54 different stickers, so that a move shows where every
\* single sticker goes.
PieceInit ==
    /\ faces = LabelledFaces
    /\ op = "init"
    /\ pre = LabelledFaces
    /\ algorithm = <<>>
    /\ max_depth = 0
    /\ result = NoResult
    /\ nmoves = 0

PieceNext == ApplyMove

PieceSpec == PieceInit /\ [][PieceNext]_vars

\* C20: after a move, the stickers that were together on one piece of the
\* turned layer (three on a corner, two on an edge) are together on one piece
\* again: the face's own grid and the four strips have turned the same way.
C20_PiecesStayTogether ==
    (op = "apply_move" /\ result.kind = "return") =>
        \A P \in PiecePlaces :
            (\A p \in P : TurnedFace(algorithm) \in LayersOf[p]) =>
                \E Q \in PiecePlaces : \A p \in P : Dest(p) \in Q

\* ------------------------------------------------------------ the search
\* C21: solve (BFS and A*), from every cube reachable from solved and for
\* every max_depth, ends by returning a result, found or not found, and never
\* in an error.
C21_SolveNeverErrs ==
    (op \in Solves) =>
        /\ result.kind = "return"
        /\ result.exc = "none"
        /\ result.found \in BOOLEAN

\* The points of the search that the solve just performed went through.
APoints == AStar_points(pre, max_depth)
BPoints == BFS_points(pre, max_depth)

\* The state keys held in a BFS queue, front to back.
QueueKeys(queue) == [k \in 1..Len(queue) |-> queue[k][1]]

C25_PathOfEnqueued ==
    (op = "bfs_solve" /\ ~is_solved(pre)) =>
        \A k \in 1..Len(BPoints) :
            LET s == BPoints[k]
            IN  \A q \in 1..Len(s.queue) :
                    LET key == s.queue[q][1]
                        d == s.queue[q][2]
                        walk == _reconstruct_path_call(key, s.came_from)
                    IN  /\ walk.kind = "return"
                        /\ Len(walk.moves) = d
                        /\ ApplyValid(pre, walk.moves) = np_array_reshape(key)

\* The states that have an entry in the open set.
OpenStates(s) == {e.state : e \in s.open_set}

C30_ParentLinksRooted ==
    (op = "astar_solve" /\ ~is_solved(pre)) =>
        LET start_state == _cube_state_to_hashable(pre)
        IN  /\ \A k \in 1..Len(APoints) :
                   LET s == APoints[k]
                   IN  /\ start_state \notin DOMAIN s.came_from
                       /\ \A key \in DOMAIN s.came_from :
                              s.g_score[key] >=
                                  s.g_score[s.came_from[key][1]] + 1
                       /\ \A e \in s.open_set :
                              LET walk ==
                                    _reconstruct_path_call(e.state, s.came_from)
                              IN  /\ walk.kind = "return"
                                  /\ Len(walk.moves) <= e.depth
                                  /\ Len(walk.moves) <= max_depth
                                  /\ ApplyValid(pre, walk.moves) =
                                         np_array_reshape(e.state)
            /\ \A k \in 1..(Len(APoints) - 1) :
                   \A key \in DOMAIN APoints[k].g_score :
                       /\ key \in DOMAIN APoints[k + 1].g_score
                       /\ APoints[k + 1].g_score[key] <= APoints[k].g_score[key]

\* ------------------------------------------------- what a move leaves alone
\* The face opposite face X: Front/Back, Up/Down, Left/Right.
Opposite(X) == IF X % 2 = 0 THEN X + 1 ELSE X - 1

\* The positions of face N, and the four border lines of a face (top and
\* bottom row, left and right column) as offsets within the face.
FacePositions(N) == {p \in Positions : p \div 9 = N}
BorderLines == {{0, 1, 2}, {6, 7, 8}, {0, 3, 6}, {2, 5, 8}}

\* The positions whose sticker the last operation changed.
Changed == {p \in Positions : At(faces, p) # At(pre, p)}

\* C27: a move changes no sticker of the face opposite the turned face and,
\* on each of the four neighbouring faces, changes exactly one border line of
\* three stickers and leaves the other six alone.
C27_OnlyLayerChanges ==
    (op = "apply_move" /\ result.kind = "return") =>
        LET X == TurnedFace(algorithm)
        IN  /\ Changed \cap FacePositions(Opposite(X)) = {}
            /\ \A N \in Faces \ {X, Opposite(X)} :
                   \E line \in BorderLines :
                       Changed \cap FacePositions(N) = {9 * N + o : o \in line}
            /\ Cardinality(Changed \ FacePositions(X)) = 12

\* A second move has been applied, to a cube whose stickers the first move
\* had already displaced.
C27_Witness ==
    /\ op = "apply_move"
    /\ result.kind = "return"
    /\ nmoves = 2
    /\ pre # LabelledFaces
    /\ Changed # {}

\* C28: in every state reachable from the solved cube the centre sticker of
\* face i has colour i.
C28_CentresFixed ==
    \A i \in Faces : faces[i][1][1] = i

\* A move has turned a face of a cube that was scrambled already.
C28_Witness ==
    /\ op = "apply_move"
    /\ result.kind = "return"
    /\ nmoves >= 2
    /\ ~is_solved(pre)
    /\ faces # pre
    /\ faces # SolvedFaces

\* C29: a reachable state that is_solved accepts is the initial colouring,
\* face i all of colour i.
C29_SolvedIsCanonical ==
    is_solved(faces) =>
        \A i \in Faces : \A r \in Idx : \A c \in Idx : faces[i][r][c] = i

\* A move has brought the cube back to a state is_solved accepts.
C29_Witness ==
    /\ op \in {"apply_move", "apply_algorithm"}
    /\ result.kind = "return"
    /\ ~is_solved(pre)
    /\ is_solved(faces)

\* --------------------------------------------------- the BFS queue
\* C31: at every point of a BFS search the cube of every key in the queue is
\* unsolved, and the search, which tests is_solved on the start and on every
\* generated child only, misses no solved state within the bound: when one
\* lies within max_depth moves of the start, solve returns moves that lead
\* to a solved state.
C31_QueueUnsolved ==
    (op = "bfs_solve") =>
        /\ \A k \in 1..Len(BPoints) :
               \A q \in 1..Len(BPoints[k].queue) :
                   ~is_solved(np_array_reshape(BPoints[k].queue[q][1]))
        /\ SolvableIn(pre, max_depth) =>
               /\ result.kind = "return"
               /\ result.found
               /\ is_solved(ApplyValid(pre, result.moves))

====
